---- MODULE Spec2Model ----
(***************************************************************************)
(* State-machine model of the retell-demo dashboard: the cached entity     *)
(* stores (agents, voices), the cache-less agents store variant, the calls *)
(* store, the SimpleWebCall session component and the call statistics.     *)
(*                                                                         *)
(* Time is counted in minutes for the stores (CACHE_DURATION is 5 minutes, *)
(* 5 * 60 * 1000 ms in the source).  Date.now() is never 0 in a browser,   *)
(* so the clock starts at 1 and the stamp 0 stands for JavaScript's null:  *)
(* the source tests the stamp for truthiness, which treats both alike.     *)
(***************************************************************************)
EXTENDS Integers, Sequences, FiniteSets, TLC

VARIABLES
    now,          \* Date.now(), in minutes
    items,        \* items[s]: the in-memory collection of store s
    isLoading,    \* isLoading[s]
    error,        \* error[s]: "null" or a message
    lastFetched,  \* lastFetched[s]: stamp of the last successful fetch, NoStamp = null
    storage,      \* storage[s]: the localStorage entry under the store's STORAGE_KEY
    server,       \* server[s]: the remote list, as backend records
    nextAgentId,  \* the remote system's next agent identity
    reqs,         \* the remote requests in flight, in order of issue
    issued,       \* how many remote requests were issued so far
    hist,         \* hist[s]: issue time and fate of the latest unforced list request
    lastCall      \* what the step just taken did (an early return leaves no other trace)

storeVars ==
    <<now, items, isLoading, error, lastFetched, storage, server, nextAgentId,
      reqs, issued, hist, lastCall>>

VARIABLES
    callId,              \* the callId prop of the SimpleWebCall component
    isConnected, isConnecting, micPermission, webCallError, transcript, callDuration,
    retellClientRef,     \* the SDK client the ref holds (an index into clients)
    startTimeRef, durationIntervalRef, initializationRef,
    permReqs,            \* the getUserMedia requests awaited, each with the values of its render
    clients,             \* the SDK client objects created, each with the values its handlers closed over
    intervals,           \* the running intervals
    secs,                \* the seconds gone since the time startTimeRef holds
    notice,              \* the notice scheduled by a failed initialization is due
    lastWc               \* what the component's step just taken did

webVars ==
    <<callId, isConnected, isConnecting, micPermission, webCallError, transcript, callDuration,
      retellClientRef, startTimeRef, durationIntervalRef, initializationRef,
      permReqs, clients, intervals, secs, notice, lastWc>>

VARIABLES
    stats                \* what getCallStats returned for the calls as they are

VARIABLES
    searchTerm, statusFilter,   \* the filter fields of the calls store
    filtered                    \* what getFilteredCalls returned for the store as it is

viewVars == <<searchTerm, statusFilter, filtered>>

VARIABLES
    storageDenied               \* the browser refuses access to localStorage: every use throws

VARIABLES
    activeCall,                 \* activeCall of the calls store: a call object, or NoActiveCall
    isCallInProgress,           \* state of the CallTrigger page
    currentCallStoreId,         \* state of the CallTrigger page, as the latest render sees it
    webCallData,                \* state of the CallTrigger page: the web call on display
    handler,                    \* the handlePhoneCall / handleWebCall run that awaits its request
    nextKey,                    \* how many calls were created, each keeping its number as key
    lastFlow                    \* what the step just taken did

flowVars ==
    <<activeCall, isCallInProgress, currentCallStoreId, webCallData, handler, nextKey, lastFlow>>

VARIABLES
    theme,                      \* theme of the UI store
    localStorage,               \* the browser's localStorage: key -> value, or Absent
    appLoaded,                  \* whether App's startup effect has run in this page load
    startedWith                 \* the theme key's value before the startup effect just run

themeVars == <<theme, localStorage, appLoaded, startedWith>>

\* the state around the stores and the component
pageVars == <<viewVars, storageDenied, flowVars, themeVars>>

---------------------------------------------------------------------------
(* Bounds and program constants *)

MaxTime == 6
MaxRequests == 3
MaxSessions == 2
MaxSecs == 1
MaxCalls == 2
MaxTally == 40
MaxListed == 3
MaxFiltered == 2
MaxPlaced == 1
CallIds == {"c1", "c2"}
CACHE_DURATION == 5
NoStamp == 0

CachedStores == {"agents", "voices"}
Stores == CachedStores \cup {"calls"}
Names == {"n1", "n2"}
Mutations == {"create", "update", "delete"}

NoArg == [id |-> 0, name |-> ""]
\* forcedOk: the latest forced list request succeeded and no mutation was
\* merged since
NoHist == [at |-> NoStamp, res |-> "none", forcedOk |-> FALSE]
NoCall ==
    [op |-> "none", store |-> "", kind |-> "", forced |-> FALSE, loading |-> FALSE,
     result |-> "", arg |-> NoArg, prev |-> NoHist]
AbsentEntry == [st |-> "absent", items |-> <<>>, lastFetched |-> NoStamp]
CorruptEntry == [st |-> "corrupt", items |-> <<>>, lastFetched |-> NoStamp]

InitialAgents == <<[agent_id |-> 1, agent_name |-> "n1"]>>
VoiceCatalog == <<[voice_id |-> 1, voice_name |-> "n1"]>>
RemoteCalls ==
    <<[id |-> 1, driver_name |-> "d1", status |-> "completed", confidence |-> 80,
       extracted_successful |-> "true", duration |-> <<"1", ":", "3", "0">>]>>

\* the fallback demo data of the cache-less agents store (initialAgents)
DemoAgents ==
    <<[id |-> 101, name |-> "Driver Check-in Agent"],
      [id |-> 102, name |-> "Emergency Protocol Agent"]>>

---------------------------------------------------------------------------
(* Pure helpers of the stores *)

RemoveAt(s, i) == [k \in 1..(Len(s) - 1) |-> IF k < i THEN s[k] ELSE s[k + 1]]

mapBackendAgentToFrontend(b) ==
    [id |-> b.agent_id,
     name |-> IF b.agent_name = "" THEN "Unknown Agent" ELSE b.agent_name]

\* the field translation of fetchCalls
\* (extractedData keeps four named fields only, so "successful" is undefined)
mapBackendCall(b) ==
    [id |-> b.id, driver |-> b.driver_name, status |-> b.status,
     confidence |-> b.confidence, successful |-> "undefined", duration |-> b.duration]

\* fetchAgents and fetchCalls map every backend record; fetchVoices stores the
\* response as it is
MapList(s, list) ==
    CASE s = "agents" -> [i \in 1..Len(list) |-> mapBackendAgentToFrontend(list[i])]
      [] s = "calls" -> [i \in 1..Len(list) |-> mapBackendCall(list[i])]
      [] s = "voices" -> list

IsFreshLate(stamp, t) == stamp # NoStamp /\ t - stamp <= CACHE_DURATION

\* lastFetched && (Date.now() - lastFetched < CACHE_DURATION)
IsFresh(stamp, t) == stamp # NoStamp /\ t - stamp < CACHE_DURATION

\* the two guards of fetchAgents / fetchVoices ahead of the request
ShouldFetch(loading, stamp, force, t) ==
    ~loading /\ (force \/ ~IsFresh(stamp, t))

\* loadCachedAgents / loadCachedVoices: the parsed envelope, or null
loadCached(entry, t) ==
    IF entry.st = "json" /\ t - entry.lastFetched < CACHE_DURATION
    THEN entry
    ELSE AbsentEntry

\* saveCachedAgents / saveCachedVoices
saveCached(list, stamp) == [st |-> "json", items |-> list, lastFetched |-> stamp]

\* what the try of loadCached... reads, and what the try of saveCached...
\* leaves, when localStorage may throw: both catch and go on
Read(entry) == IF storageDenied THEN AbsentEntry ELSE entry
Written(entry, saved) == IF storageDenied THEN entry ELSE saved

NewReq(s, kind, arg, force, owner) ==
    [store |-> s, kind |-> kind, arg |-> arg, forced |-> force, owner |-> owner,
     st |-> "sent", resp |-> <<>>]

\* mutations in flight: the success path of each still issues its forced re-fetch
OpenMutations == {i \in 1..Len(reqs) : reqs[i].kind \in Mutations}

CanIssue(n) == issued + Cardinality(OpenMutations) + n <= MaxRequests

Did(op, s, kind, force, result) ==
    [NoCall EXCEPT !.op = op, !.store = s, !.kind = kind, !.forced = force,
                   !.loading = isLoading[s], !.result = result, !.prev = hist[s]]

---------------------------------------------------------------------------
(* Store actions: the synchronous prefix of each async action *)

\* fetchAgents(forceRefresh) / fetchVoices(forceRefresh) up to the first await,
\* called as `op` with `owner` awaiting it
FetchList(op, s, force, owner, enter) ==
    /\ CanIssue(1)
    /\ IF enter /\ ShouldFetch(isLoading[s], lastFetched[s], force, now)
       THEN /\ isLoading' = [isLoading EXCEPT ![s] = TRUE]
            /\ error' = [error EXCEPT ![s] = "null"]
            /\ reqs' = Append(reqs, NewReq(s, "getAll", NoArg, force, owner))
            /\ issued' = issued + 1
            /\ hist' = IF force THEN hist
                       ELSE [hist EXCEPT ![s] = [@ EXCEPT !.at = now, !.res = "pending"]]
            /\ lastCall' = Did(op, s, "getAll", force, "issued")
       ELSE /\ lastCall' = Did(op, s, "getAll", force, "skipped")
            /\ UNCHANGED <<isLoading, error, reqs, issued, hist>>
    /\ UNCHANGED <<now, items, lastFetched, storage, server, nextAgentId>>

\* the views call fetchAgents() without an argument
FetchCall(s) == FetchList("fetch", s, FALSE, "", TRUE)

\* ensureAgentsLoaded / ensureVoicesLoaded
EnsureLoaded(s) ==
    FetchList("ensure", s, FALSE, "", ~IsFresh(lastFetched[s], now) /\ ~isLoading[s])

\* addAgent, updateAgent, deleteAgent up to the await of the remote call
StartMutation(kind, arg) ==
    /\ CanIssue(2)
    /\ isLoading' = [isLoading EXCEPT !["agents"] = TRUE]
    /\ error' = [error EXCEPT !["agents"] = "null"]
    /\ reqs' = Append(reqs, NewReq("agents", kind, arg, FALSE, ""))
    /\ issued' = issued + 1
    /\ lastCall' = Did("start", "agents", kind, FALSE, "issued")
    /\ UNCHANGED <<now, items, lastFetched, storage, server, nextAgentId, hist>>

addAgent == \E n \in Names : StartMutation("create", [id |-> 0, name |-> n])

updateAgent ==
    \E k \in 1..Len(items["agents"]), n \in Names :
        StartMutation("update", [id |-> items["agents"][k].id, name |-> n])

deleteAgent ==
    \E k \in 1..Len(items["agents"]) :
        StartMutation("delete", [id |-> items["agents"][k].id, name |-> ""])

---------------------------------------------------------------------------
(* The remote API: a request is answered with a 2xx body or with an error *)

HasAgent(list, id) == \E k \in 1..Len(list) : list[k].agent_id = id

ReplaceAgent(list, rec) ==
    [k \in 1..Len(list) |-> IF list[k].agent_id = rec.agent_id THEN rec ELSE list[k]]

RemoveAgent(list, id) == SelectSeq(list, LAMBDA b : b.agent_id # id)

Answer(i, body) == [reqs EXCEPT ![i].st = "ok", ![i].resp = body]

ServerOk(i) ==
    /\ i \in 1..Len(reqs)
    /\ reqs[i].st = "sent"
    /\ LET r == reqs[i] IN
       CASE r.kind = "getAll" ->
              /\ reqs' = Answer(i, server[r.store])
              /\ UNCHANGED <<server, nextAgentId>>
         [] r.kind = "create" ->
              LET rec == [agent_id |-> nextAgentId, agent_name |-> r.arg.name] IN
              /\ reqs' = Answer(i, <<rec>>)
              /\ server' = [server EXCEPT !["agents"] = Append(@, rec)]
              /\ nextAgentId' = nextAgentId + 1
         [] r.kind = "update" ->
              LET rec == [agent_id |-> r.arg.id, agent_name |-> r.arg.name] IN
              /\ HasAgent(server["agents"], r.arg.id)
              /\ reqs' = Answer(i, <<rec>>)
              /\ server' = [server EXCEPT !["agents"] = ReplaceAgent(@, rec)]
              /\ UNCHANGED nextAgentId
         [] r.kind = "delete" ->
              /\ HasAgent(server["agents"], r.arg.id)
              /\ reqs' = Answer(i, <<>>)
              /\ server' = [server EXCEPT !["agents"] = RemoveAgent(@, r.arg.id)]
              /\ UNCHANGED nextAgentId
         [] r.kind = "initiate" ->
              LET rec == [RemoteCalls[1] EXCEPT !.id = Len(server["calls"]) + 1] IN
              /\ reqs' = Answer(i, <<rec>>)
              /\ server' = [server EXCEPT !["calls"] = Append(@, rec)]
              /\ UNCHANGED nextAgentId
    /\ lastCall' = NoCall
    /\ UNCHANGED <<now, items, isLoading, error, lastFetched, storage, issued, hist>>

\* apiRequest throws on a non-2xx response or a network failure
ServerFail(i) ==
    /\ i \in 1..Len(reqs)
    /\ reqs[i].st = "sent"
    /\ reqs' = [reqs EXCEPT ![i].st = "fail"]
    /\ lastCall' = NoCall
    /\ UNCHANGED <<now, items, isLoading, error, lastFetched, storage, server,
                   nextAgentId, issued, hist>>

---------------------------------------------------------------------------
(* Store actions: the continuation after the await *)

\* the fate of an unforced list request, for the record
Fate(r, res) ==
    IF r.forced THEN [hist EXCEPT ![r.store] = [@ EXCEPT !.forcedOk = (res = "ok")]]
    ELSE [hist EXCEPT ![r.store] = [@ EXCEPT !.res = res]]

\* whose promise settles when list request r is done: the fetch's own, or
\* that of the mutation awaiting it
Settled(r, result) ==
    [NoCall EXCEPT !.op = "settled", !.store = r.store,
                   !.kind = IF r.owner = "" THEN r.kind ELSE r.owner,
                   !.forced = r.forced, !.result = result]

StampNothing(t) == NoStamp

\* const timestamp = Date.now()
Stamp(t) == t

\* fetchAgents / fetchVoices, the try branch after the await
FetchOk(i) ==
    /\ i \in 1..Len(reqs)
    /\ reqs[i].kind = "getAll" /\ reqs[i].st = "ok"
    /\ LET s == reqs[i].store
           mapped == MapList(s, reqs[i].resp)
       IN /\ items' = [items EXCEPT ![s] = mapped]
          /\ isLoading' = [isLoading EXCEPT ![s] = FALSE]
          /\ lastFetched' = [lastFetched EXCEPT ![s] = Stamp(now)]
          /\ error' = [error EXCEPT ![s] = "null"]
          /\ storage' = [storage EXCEPT ![s] = Written(@, saveCached(mapped, Stamp(now)))]
    /\ hist' = Fate(reqs[i], "ok")
    /\ lastCall' = Settled(reqs[i], "resolved")
    /\ reqs' = RemoveAt(reqs, i)
    /\ UNCHANGED <<now, server, nextAgentId, issued>>

\* fetchAgents / fetchVoices, the catch branch: the error is stored, not thrown
FetchFail(i) ==
    /\ i \in 1..Len(reqs)
    /\ reqs[i].kind = "getAll" /\ reqs[i].st = "fail"
    /\ LET s == reqs[i].store
       IN /\ error' = [error EXCEPT ![s] = "HTTP error"]
          /\ isLoading' = [isLoading EXCEPT ![s] = FALSE]
    /\ hist' = Fate(reqs[i], "fail")
    /\ lastCall' = [Settled(reqs[i], "resolved") EXCEPT !.op = "fetchFailed"]
    /\ reqs' = RemoveAt(reqs, i)
    /\ UNCHANGED <<now, items, lastFetched, storage, server, nextAgentId, issued>>

\* what the success path of a mutation merges into the collection
Merged(list, r) ==
    CASE r.kind = "create" -> Append(list, mapBackendAgentToFrontend(r.resp[1]))
      [] r.kind = "update" ->
            [k \in 1..Len(list) |->
                IF list[k].id = r.arg.id THEN mapBackendAgentToFrontend(r.resp[1]) ELSE list[k]]
      [] r.kind = "delete" -> SelectSeq(list, LAMBDA a : a.id # r.arg.id)

LoadingLeftSet == TRUE

\* the isLoading flag the success path of a mutation has written by the time
\* it calls invalidateCache() and fetchAgents(true)
LoadingAfterMerge == FALSE

\* addAgent / updateAgent / deleteAgent, the try branch after the await:
\* merge, invalidateCache(), then fetchAgents(true) up to its own await
MutationOk(i) ==
    /\ ~storageDenied
    /\ i \in 1..Len(reqs)
    /\ reqs[i].kind \in Mutations /\ reqs[i].st = "ok"
    /\ items' = [items EXCEPT !["agents"] = Merged(@, reqs[i])]
    /\ storage' = [storage EXCEPT !["agents"] = AbsentEntry]
    /\ lastFetched' = [lastFetched EXCEPT !["agents"] = NoStamp]
    /\ LET r == reqs[i]
           arg == IF r.kind = "delete" THEN r.arg
                  ELSE [id |-> r.resp[1].agent_id, name |-> r.resp[1].agent_name]
       IN IF ShouldFetch(LoadingAfterMerge, NoStamp, TRUE, now)
          THEN /\ isLoading' = [isLoading EXCEPT !["agents"] = TRUE]
               /\ error' = [error EXCEPT !["agents"] = "null"]
               /\ reqs' = Append(RemoveAt(reqs, i),
                                 NewReq("agents", "getAll", NoArg, TRUE, r.kind))
               /\ issued' = issued + 1
               /\ lastCall' = [Did("merged", "agents", r.kind, TRUE, "issued")
                                  EXCEPT !.arg = arg]
          ELSE /\ isLoading' = [isLoading EXCEPT !["agents"] = LoadingAfterMerge]
               /\ reqs' = RemoveAt(reqs, i)
               /\ lastCall' = [Did("merged", "agents", r.kind, TRUE, "skipped")
                                  EXCEPT !.arg = arg]
               /\ UNCHANGED <<error, issued>>
    /\ hist' = [hist EXCEPT !["agents"] = [@ EXCEPT !.forcedOk = FALSE]]
    /\ UNCHANGED <<now, server, nextAgentId>>

FailureMessage(kind) ==
    CASE kind = "create" -> "Failed to create agent"
      [] kind = "update" -> "Failed to update agent"
      [] kind = "delete" -> "Failed to delete agent"

\* the catch branches: addAgent and updateAgent rethrow, deleteAgent does not
FailureOutcome(kind) == IF kind = "delete" THEN "resolved" ELSE "rejected"

\* the try branch after the await when localStorage throws: the merge is
\* written, invalidateCache() throws at localStorage.removeItem before it
\* resets lastFetched, and the catch branch of the action takes over
MutationOkThrows(i) ==
    /\ storageDenied
    /\ i \in 1..Len(reqs)
    /\ reqs[i].kind \in Mutations /\ reqs[i].st = "ok"
    /\ items' = [items EXCEPT !["agents"] = Merged(@, reqs[i])]
    /\ error' = [error EXCEPT !["agents"] = FailureMessage(reqs[i].kind)]
    /\ isLoading' = [isLoading EXCEPT !["agents"] = FALSE]
    /\ lastCall' = [NoCall EXCEPT !.op = "invalidateThrew", !.store = "agents",
                                  !.kind = reqs[i].kind,
                                  !.result = FailureOutcome(reqs[i].kind)]
    /\ reqs' = RemoveAt(reqs, i)
    /\ hist' = [hist EXCEPT !["agents"] = [@ EXCEPT !.forcedOk = FALSE]]
    /\ UNCHANGED <<now, lastFetched, storage, server, nextAgentId, issued>>

MutationFail(i) ==
    /\ i \in 1..Len(reqs)
    /\ reqs[i].kind \in Mutations /\ reqs[i].st = "fail"
    /\ error' = [error EXCEPT !["agents"] = FailureMessage(reqs[i].kind)]
    /\ isLoading' = [isLoading EXCEPT !["agents"] = FALSE]
    /\ lastCall' = [NoCall EXCEPT !.op = "mutationFailed", !.store = "agents",
                                  !.kind = reqs[i].kind,
                                  !.result = FailureOutcome(reqs[i].kind)]
    /\ reqs' = RemoveAt(reqs, i)
    /\ UNCHANGED <<now, items, lastFetched, storage, server, nextAgentId, issued, hist>>

---------------------------------------------------------------------------
(* The clock, and a page load *)

Tick ==
    /\ now < MaxTime
    /\ now' = now + 1
    /\ lastCall' = NoCall
    /\ UNCHANGED <<items, isLoading, error, lastFetched, storage, server, nextAgentId,
                   reqs, issued, hist>>

\* module initialisation of the stores: cachedData = loadCached...(), then
\* create(...) with the initial state.  The requests of the page that went
\* away are never continued.
LoadPage ==
    /\ items' = [s \in Stores |-> loadCached(Read(storage[s]), now).items]
    /\ lastFetched' = [s \in Stores |-> loadCached(Read(storage[s]), now).lastFetched]
    /\ isLoading' = [s \in Stores |-> FALSE]
    /\ error' = [s \in Stores |-> "null"]
    /\ reqs' = <<>>
    /\ hist' = [s \in Stores |-> NoHist]
    /\ lastCall' = [NoCall EXCEPT !.op = "load"]
    /\ UNCHANGED <<now, storage, server, nextAgentId, issued>>

StoreInit ==
    /\ now = 1
    /\ storage \in {f \in [Stores -> {AbsentEntry, CorruptEntry}] : f["calls"] = AbsentEntry}
    /\ items = [s \in Stores |-> loadCached(storage[s], now).items]
    /\ lastFetched = [s \in Stores |-> loadCached(storage[s], now).lastFetched]
    /\ isLoading = [s \in Stores |-> FALSE]
    /\ error = [s \in Stores |-> "null"]
    /\ server = [s \in Stores |->
                    CASE s = "agents" -> InitialAgents
                      [] s = "voices" -> VoiceCatalog
                      [] s = "calls" -> RemoteCalls]
    /\ nextAgentId = 2
    /\ reqs = <<>>
    /\ issued = 0
    /\ hist = [s \in Stores |-> NoHist]
    /\ lastCall = NoCall

\* the views only read: ensure...Loaded and fetch...() on mount, on any store
NextEnsure ==
    \/ \E s \in CachedStores : EnsureLoaded(s)
    \/ \E s \in CachedStores : FetchCall(s)
    \/ \E i \in 1..MaxRequests : ServerOk(i)
    \/ \E i \in 1..MaxRequests : ServerFail(i)
    \/ \E i \in 1..MaxRequests : FetchOk(i)
    \/ \E i \in 1..MaxRequests : FetchFail(i)
    \/ Tick

\* the agents store with its mutations
\* the agents store in a browser that may refuse localStorage
NextStorage ==
    \/ EnsureLoaded("agents")
    \/ addAgent
    \/ deleteAgent
    \/ \E i \in 1..MaxRequests : ServerOk(i)
    \/ \E i \in 1..MaxRequests : FetchOk(i)
    \/ \E i \in 1..MaxRequests : MutationOk(i)
    \/ \E i \in 1..MaxRequests : MutationOkThrows(i)
    \/ LoadPage
    \/ Tick

NextAgents ==
    \/ EnsureLoaded("agents")
    \/ FetchCall("agents")
    \/ addAgent
    \/ updateAgent
    \/ deleteAgent
    \/ \E i \in 1..MaxRequests : ServerOk(i)
    \/ \E i \in 1..MaxRequests : ServerFail(i)
    \/ \E i \in 1..MaxRequests : FetchOk(i)
    \/ \E i \in 1..MaxRequests : FetchFail(i)
    \/ \E i \in 1..MaxRequests : MutationOk(i)
    \/ \E i \in 1..MaxRequests : MutationFail(i)
    \/ Tick

---------------------------------------------------------------------------
(* The agents store without cache (the store variant that keeps demo data) *)

\* fetchAgents of the variant: no guard ahead of the request
NoCacheFetchAgents ==
    /\ CanIssue(1)
    /\ isLoading' = [isLoading EXCEPT !["agents"] = TRUE]
    /\ error' = [error EXCEPT !["agents"] = "null"]
    /\ reqs' = Append(reqs, NewReq("agents", "getAll", NoArg, FALSE, ""))
    /\ issued' = issued + 1
    /\ lastCall' = Did("fetch", "agents", "getAll", FALSE, "issued")
    /\ UNCHANGED <<now, items, lastFetched, storage, server, nextAgentId, hist>>

NoCacheFetchOk(i) ==
    /\ i \in 1..Len(reqs)
    /\ reqs[i].kind = "getAll" /\ reqs[i].st = "ok"
    /\ items' = [items EXCEPT !["agents"] = MapList("agents", reqs[i].resp)]
    /\ isLoading' = [isLoading EXCEPT !["agents"] = FALSE]
    /\ lastCall' = Settled(reqs[i], "resolved")
    /\ reqs' = RemoveAt(reqs, i)
    /\ UNCHANGED <<now, error, lastFetched, storage, server, nextAgentId, issued, hist>>

\* the catch branch of the variant falls back to the demo agents
NoCacheFetchFail(i) ==
    /\ i \in 1..Len(reqs)
    /\ reqs[i].kind = "getAll" /\ reqs[i].st = "fail"
    /\ items' = [items EXCEPT !["agents"] = DemoAgents]
    /\ isLoading' = [isLoading EXCEPT !["agents"] = FALSE]
    /\ error' = [error EXCEPT !["agents"] = "Failed to load agents from API, showing demo data"]
    /\ lastCall' = [Settled(reqs[i], "resolved") EXCEPT !.op = "fetchFailed"]
    /\ reqs' = RemoveAt(reqs, i)
    /\ UNCHANGED <<now, lastFetched, storage, server, nextAgentId, issued, hist>>

\* addAgent / updateAgent / deleteAgent of the variant, the try branch: merge only
NoCacheMutationOk(i) ==
    /\ i \in 1..Len(reqs)
    /\ reqs[i].kind \in Mutations /\ reqs[i].st = "ok"
    /\ items' = [items EXCEPT !["agents"] = Merged(@, reqs[i])]
    /\ isLoading' = [isLoading EXCEPT !["agents"] = FALSE]
    /\ lastCall' = [NoCall EXCEPT !.op = "settled", !.store = "agents",
                                  !.kind = reqs[i].kind, !.result = "resolved"]
    /\ reqs' = RemoveAt(reqs, i)
    /\ UNCHANGED <<now, error, lastFetched, storage, server, nextAgentId, issued, hist>>

NextNoCache ==
    \/ NoCacheFetchAgents
    \/ addAgent
    \/ updateAgent
    \/ deleteAgent
    \/ \E i \in 1..MaxRequests : ServerOk(i)
    \/ \E i \in 1..MaxRequests : ServerFail(i)
    \/ \E i \in 1..MaxRequests : NoCacheFetchOk(i)
    \/ \E i \in 1..MaxRequests : NoCacheFetchFail(i)
    \/ \E i \in 1..MaxRequests : NoCacheMutationOk(i)
    \/ \E i \in 1..MaxRequests : MutationFail(i)

---------------------------------------------------------------------------
(* The calls store: the list fetch *)

\* fetchCalls up to the await: it takes no argument and has no guard
fetchCalls ==
    /\ CanIssue(1)
    /\ isLoading' = [isLoading EXCEPT !["calls"] = TRUE]
    /\ error' = [error EXCEPT !["calls"] = "null"]
    /\ reqs' = Append(reqs, NewReq("calls", "getAll", NoArg, FALSE, ""))
    /\ issued' = issued + 1
    /\ hist' = [hist EXCEPT !["calls"] = [@ EXCEPT !.at = now, !.res = "pending"]]
    /\ lastCall' = Did("fetchCalls", "calls", "getAll", FALSE, "issued")
    /\ UNCHANGED <<now, items, lastFetched, storage, server, nextAgentId>>

fetchCallsOk(i) ==
    /\ i \in 1..Len(reqs)
    /\ reqs[i].store = "calls" /\ reqs[i].kind = "getAll" /\ reqs[i].st = "ok"
    /\ items' = [items EXCEPT !["calls"] = MapList("calls", reqs[i].resp)]
    /\ isLoading' = [isLoading EXCEPT !["calls"] = FALSE]
    /\ hist' = Fate(reqs[i], "ok")
    /\ lastCall' = Settled(reqs[i], "resolved")
    /\ reqs' = RemoveAt(reqs, i)
    /\ UNCHANGED <<now, error, lastFetched, storage, server, nextAgentId, issued>>

\* a catch branch that leaves isLoading as it is
fetchCallsFailKeepsLoading(i) ==
    /\ i \in 1..Len(reqs)
    /\ reqs[i].store = "calls" /\ reqs[i].kind = "getAll" /\ reqs[i].st = "fail"
    /\ error' = [error EXCEPT !["calls"] = "Failed to load calls"]
    /\ hist' = Fate(reqs[i], "fail")
    /\ lastCall' = [Settled(reqs[i], "resolved") EXCEPT !.op = "fetchFailed"]
    /\ reqs' = RemoveAt(reqs, i)
    /\ UNCHANGED <<now, items, isLoading, lastFetched, storage, server, nextAgentId, issued>>

fetchCallsFail(i) ==
    /\ i \in 1..Len(reqs)
    /\ reqs[i].store = "calls" /\ reqs[i].kind = "getAll" /\ reqs[i].st = "fail"
    /\ error' = [error EXCEPT !["calls"] = "Failed to load calls"]
    /\ isLoading' = [isLoading EXCEPT !["calls"] = FALSE]
    /\ hist' = Fate(reqs[i], "fail")
    /\ lastCall' = [Settled(reqs[i], "resolved") EXCEPT !.op = "fetchFailed"]
    /\ reqs' = RemoveAt(reqs, i)
    /\ UNCHANGED <<now, items, lastFetched, storage, server, nextAgentId, issued>>

\* initiateCall up to the await of callApi.create
initiateCall ==
    /\ CanIssue(1)
    /\ isLoading' = [isLoading EXCEPT !["calls"] = TRUE]
    /\ error' = [error EXCEPT !["calls"] = "null"]
    /\ reqs' = Append(reqs, NewReq("calls", "initiate", NoArg, FALSE, ""))
    /\ issued' = issued + 1
    /\ lastCall' = Did("initiateCall", "calls", "initiate", FALSE, "issued")
    /\ UNCHANGED <<now, items, lastFetched, storage, server, nextAgentId, hist>>

\* initiateCall, the try branch after the await: the call of the response is
\* put in front; activeCall is set to it and to null again
initiateCallOk(i) ==
    /\ i \in 1..Len(reqs)
    /\ reqs[i].kind = "initiate" /\ reqs[i].st = "ok"
    /\ items' = [items EXCEPT !["calls"] = <<mapBackendCall(reqs[i].resp[1])>> \o @]
    /\ isLoading' = [isLoading EXCEPT !["calls"] = FALSE]
    /\ lastCall' = Settled(reqs[i], "resolved")
    /\ reqs' = RemoveAt(reqs, i)
    /\ UNCHANGED <<now, error, lastFetched, storage, server, nextAgentId, issued, hist>>

initiateCallFail(i) ==
    /\ i \in 1..Len(reqs)
    /\ reqs[i].kind = "initiate" /\ reqs[i].st = "fail"
    /\ error' = [error EXCEPT !["calls"] = "Failed to initiate call"]
    /\ isLoading' = [isLoading EXCEPT !["calls"] = FALSE]
    /\ lastCall' = [Settled(reqs[i], "resolved") EXCEPT !.op = "initiateFailed"]
    /\ reqs' = RemoveAt(reqs, i)
    /\ UNCHANGED <<now, items, lastFetched, storage, server, nextAgentId, issued, hist>>

NextCalls ==
    \/ fetchCalls
    \/ \E i \in 1..MaxRequests : ServerOk(i)
    \/ \E i \in 1..MaxRequests : ServerFail(i)
    \/ \E i \in 1..MaxRequests : fetchCallsOk(i)
    \/ \E i \in 1..MaxRequests : fetchCallsFail(i)
    \/ Tick

---------------------------------------------------------------------------
(* The SimpleWebCall component.  The model has the component mounted; its   *)
(* state, its refs, the getUserMedia requests it awaits and the SDK client  *)
(* objects it created.  The handlers registered on a client are closures of *)
(* the render that called requestMicrophonePermission: the transcript and   *)
(* callDuration they read are the values of that render.                    *)

NoClient == 0
NoInterval == 0
NoCallId == ""
\* the greeting of the call_started handler; its timestamp is the time
\* startTimeRef takes in the same handler
Greeting == [role |-> "agent", content |-> "Hello", timestamp |-> 0]
NoWc ==
    [op |-> "none", result |-> "", live |-> FALSE,
     transcript |-> <<>>, duration |-> 0, again |-> FALSE, shown |-> FALSE]

\* the update payloads: without a transcript, with a text for transcript,
\* with an empty array, with a blank utterance, with an utterance of spaces,
\* and with a blank one and one of the driver
Blank == [role |-> "agent", content |-> ""]
Spaces == [role |-> "agent", content |-> " "]
Spoken == [role |-> "driver", content |-> "b"]
Payloads ==
    {[truthy |-> FALSE, isArray |-> FALSE, transcript |-> <<>>],
     [truthy |-> TRUE, isArray |-> FALSE, transcript |-> <<>>],
     [truthy |-> TRUE, isArray |-> TRUE, transcript |-> <<>>],
     [truthy |-> TRUE, isArray |-> TRUE, transcript |-> <<Blank>>],
     [truthy |-> TRUE, isArray |-> TRUE, transcript |-> <<Spaces, Blank>>],
     [truthy |-> TRUE, isArray |-> TRUE, transcript |-> <<Blank, Spoken>>]}

\* an update that carries nothing said
NothingSaid(payload) ==
    \A k \in 1..Len(payload.transcript) : payload.transcript[k].content \in {"", " "}

\* String.prototype.trim
keepSpaces(content) == content
trim(content) == IF content = " " THEN "" ELSE content

\* update.transcript.map(...).filter(entry => entry.content.trim()), at the
\* time new Date() gives
mapEntry(e, at) ==
    [role |-> IF e.role = "agent" THEN "agent" ELSE "user", content |-> e.content,
     timestamp |-> at]

RECURSIVE dropBlank(_)
dropBlank(s) ==
    IF s = <<>> THEN <<>>
    ELSE IF trim(Head(s).content) # "" THEN <<Head(s)>> \o dropBlank(Tail(s))
         ELSE dropBlank(Tail(s))

newEntries(payload, at) ==
    dropBlank([i \in 1..Len(payload.transcript) |-> mapEntry(payload.transcript[i], at)])

\* what a transcript says: its entries without their timestamps
Said(entries) ==
    [i \in 1..Len(entries) |-> [role |-> entries[i].role, content |-> entries[i].content]]

\* a client whose call is over: none of its handlers runs again
DeadClient ==
    [callId |-> NoCallId, st |-> "over", transcript |-> <<>>, duration |-> 0, handed |-> 0]

\* handed: how often onCallEnd was called for the session of a client: 0, 1,
\* or 2 for more than once
Handed(n) == IF n = 0 THEN 1 ELSE 2

\* the sessions of a call identifier that wait for permission, connect or are active
Awaiting(id) == {k \in 1..Len(permReqs) : permReqs[k].callId = id}
Connected(id) == {c \in 1..Len(clients) : clients[c].callId = id /\ clients[c].st \in {"starting", "started"}}
Live(id) == Awaiting(id) # {} \/ Connected(id) # {}

\* clearInterval(durationIntervalRef.current) behind its if; the ref keeps the
\* interval, so a later call clears the same interval again
ClearTimer == intervals' = intervals \ {durationIntervalRef}
ClearsAgain == durationIntervalRef # NoInterval /\ durationIntervalRef \notin intervals

\* the model stops asking once MaxSessions requests are pending or were granted
CanRequest == Len(permReqs) + Len(clients) < MaxSessions

\* requestMicrophonePermission up to the await of getUserMedia
RequestPermission(id) ==
    /\ isConnecting' = TRUE
    /\ permReqs' = Append(permReqs, [callId |-> id, transcript |-> transcript, duration |-> callDuration])

\* the effect on [callId, accessToken]
MountEffect(id) ==
    /\ callId' = id
    /\ IF initializationRef = id
       THEN /\ lastWc' = [NoWc EXCEPT !.op = "effect", !.result = "skipped", !.live = Live(id)]
            /\ UNCHANGED <<initializationRef, isConnecting, permReqs>>
       ELSE /\ CanRequest
            /\ initializationRef' = id
            /\ RequestPermission(id)
            /\ lastWc' = [NoWc EXCEPT !.op = "effect", !.result = "requested", !.live = Live(id)]
    /\ UNCHANGED <<isConnected, micPermission, webCallError, transcript, callDuration, retellClientRef,
                   startTimeRef, durationIntervalRef, clients, intervals, secs, notice>>

\* the "Try Again" / "Request Permission" buttons, both shown only after a denial
RetryClick ==
    /\ micPermission = "denied"
    /\ callId # NoCallId
    /\ CanRequest
    /\ RequestPermission(callId)
    /\ lastWc' = [NoWc EXCEPT !.op = "retry", !.result = "requested", !.live = Live(callId)]
    /\ UNCHANGED <<callId, isConnected, micPermission, webCallError, transcript, callDuration, retellClientRef,
                   startTimeRef, durationIntervalRef, initializationRef, clients, intervals, secs, notice>>

\* getUserMedia resolves: setMicPermission('granted'), then initializeWebCall up
\* to the await of startCall (the SDK module is loaded by then)
PermissionGranted(k) ==
    /\ k \in 1..Len(permReqs)
    /\ micPermission' = "granted"
    /\ isConnecting' = TRUE
    /\ webCallError' = "null"
    /\ clients' = Append(clients, [callId |-> permReqs[k].callId, st |-> "starting",
                                   transcript |-> permReqs[k].transcript, duration |-> permReqs[k].duration,
                                   handed |-> 0])
    /\ retellClientRef' = Len(clients) + 1
    /\ permReqs' = RemoveAt(permReqs, k)
    /\ lastWc' = NoWc
    /\ UNCHANGED <<callId, isConnected, transcript, callDuration, startTimeRef, durationIntervalRef,
                   initializationRef, intervals, secs, notice>>

\* a catch that went on to initializeWebCall all the same
PermissionDeniedStarts(k) ==
    /\ k \in 1..Len(permReqs)
    /\ micPermission' = "denied"
    /\ isConnecting' = TRUE
    /\ webCallError' = "null"
    /\ clients' = Append(clients, [callId |-> permReqs[k].callId, st |-> "starting",
                                   transcript |-> permReqs[k].transcript, duration |-> permReqs[k].duration,
                                   handed |-> 0])
    /\ retellClientRef' = Len(clients) + 1
    /\ permReqs' = RemoveAt(permReqs, k)
    /\ lastWc' = NoWc
    /\ UNCHANGED <<callId, isConnected, transcript, callDuration, startTimeRef, durationIntervalRef,
                   initializationRef, intervals, secs, notice>>

\* getUserMedia rejects: the catch of requestMicrophonePermission
PermissionDenied(k) ==
    /\ k \in 1..Len(permReqs)
    /\ micPermission' = "denied"
    /\ isConnecting' = FALSE
    /\ webCallError' = "Microphone permission is required for web calls"
    /\ initializationRef' = NoCallId
    /\ permReqs' = RemoveAt(permReqs, k)
    /\ lastWc' = NoWc
    /\ UNCHANGED <<callId, isConnected, transcript, callDuration, retellClientRef, startTimeRef,
                   durationIntervalRef, clients, intervals, secs, notice>>

\* startCall rejects: the catch of initializeWebCall, which also schedules a notice
StartCallRejects(c) ==
    /\ c \in 1..Len(clients)
    /\ clients[c].st = "starting"
    /\ clients' = [clients EXCEPT ![c] = [DeadClient EXCEPT !.handed = clients[c].handed]]
    /\ webCallError' = "Failed to start call"
    /\ isConnecting' = FALSE
    /\ initializationRef' = NoCallId
    /\ notice' = TRUE
    /\ lastWc' = NoWc
    /\ UNCHANGED <<callId, isConnected, micPermission, transcript, callDuration, retellClientRef,
                   startTimeRef, durationIntervalRef, permReqs, intervals, secs>>

\* the setTimeout of that catch
NoticeFires ==
    /\ notice
    /\ notice' = FALSE
    /\ webCallError' = "Web Call SDK integration in progress"
    /\ lastWc' = NoWc
    /\ UNCHANGED <<callId, isConnected, isConnecting, micPermission, transcript, callDuration,
                   retellClientRef, startTimeRef, durationIntervalRef, initializationRef, permReqs,
                   clients, intervals, secs>>

\* the call_started handler of client c
CallStarted(c) ==
    /\ c \in 1..Len(clients)
    /\ clients[c].st = "starting"
    /\ clients' = [clients EXCEPT ![c].st = "started"]
    /\ isConnected' = TRUE
    /\ isConnecting' = FALSE
    /\ startTimeRef' = TRUE
    /\ secs' = 0
    /\ durationIntervalRef' = c
    /\ intervals' = intervals \cup {c}
    /\ transcript' = <<Greeting>>
    /\ lastWc' = NoWc
    /\ UNCHANGED <<callId, micPermission, webCallError, callDuration, retellClientRef, initializationRef,
                   permReqs, notice>>

\* one second passes on a started call: every interval that runs calls its
\* callback, which reads the time gone since startTimeRef
Second ==
    /\ startTimeRef
    /\ secs < MaxSecs
    /\ secs' = secs + 1
    /\ callDuration' = IF intervals # {} THEN secs + 1 ELSE callDuration
    /\ lastWc' = NoWc
    /\ UNCHANGED <<callId, isConnected, isConnecting, micPermission, webCallError, transcript,
                   retellClientRef, startTimeRef, durationIntervalRef, initializationRef, permReqs,
                   clients, intervals, notice>>

\* the update handler of client c
Update(c, payload) ==
    /\ c \in 1..Len(clients)
    /\ clients[c].st = "started"
    /\ transcript' = IF payload.truthy /\ payload.isArray /\ Len(newEntries(payload, secs)) > 0
                     THEN newEntries(payload, secs)
                     ELSE transcript
    /\ lastWc' = IF NothingSaid(payload)
                 THEN [NoWc EXCEPT !.op = "update", !.transcript = transcript]
                 ELSE IF payload.truthy /\ payload.isArray
                 THEN [NoWc EXCEPT !.op = "replaced",
                                   !.result = IF newEntries(payload, secs) = transcript
                                              THEN "same" ELSE "changed",
                                   !.shown = (Said(transcript) = Said(newEntries(payload, secs)))]
                 ELSE NoWc
    /\ UNCHANGED <<callId, isConnected, isConnecting, micPermission, webCallError, callDuration,
                   retellClientRef, startTimeRef, durationIntervalRef, initializationRef, permReqs,
                   clients, intervals, secs, notice>>

\* the call_ended handler of client c: the remote side hung up, or the SDK
\* answers a stopCall.  onCallEnd gets the transcript and callDuration of the
\* closure.
CallEnded(c) ==
    /\ c \in 1..Len(clients)
    /\ clients[c].st \in {"started", "stopped"}
    /\ clients' = [clients EXCEPT ![c] = [DeadClient EXCEPT !.handed = Handed(clients[c].handed)]]
    /\ isConnected' = FALSE
    /\ isConnecting' = FALSE
    /\ ClearTimer
    /\ initializationRef' = NoCallId
    /\ lastWc' = [NoWc EXCEPT !.op = "callEnded", !.result = "onCallEnd",
                              !.transcript = clients[c].transcript, !.duration = clients[c].duration,
                              !.again = ClearsAgain]
    /\ UNCHANGED <<callId, micPermission, webCallError, transcript, callDuration, retellClientRef,
                   startTimeRef, durationIntervalRef, permReqs, secs, notice>>

\* the error handler of client c
ErrorEvent(c) ==
    /\ c \in 1..Len(clients)
    /\ clients[c].st \in {"starting", "started"}
    /\ clients' = [clients EXCEPT ![c] = [DeadClient EXCEPT !.handed = clients[c].handed]]
    /\ webCallError' = "Call error"
    /\ isConnected' = FALSE
    /\ isConnecting' = FALSE
    /\ initializationRef' = NoCallId
    /\ lastWc' = NoWc
    /\ UNCHANGED <<callId, micPermission, transcript, callDuration, retellClientRef, startTimeRef,
                   durationIntervalRef, permReqs, intervals, secs, notice>>

\* the "End Call" button: shown when no error is shown, disabled while the
\* permission is pending.  stopCall goes to the client of retellClientRef.
endCall ==
    /\ webCallError = "null"
    /\ micPermission # "pending"
    /\ clients' = IF retellClientRef # NoClient /\ clients[retellClientRef].st \in {"starting", "started"}
                  THEN [clients EXCEPT ![retellClientRef].st = "stopped",
                                       ![retellClientRef].handed = Handed(@)]
                  ELSE IF retellClientRef # NoClient
                  THEN [clients EXCEPT ![retellClientRef].handed = Handed(@)]
                  ELSE clients
    /\ isConnected' = FALSE
    /\ isConnecting' = FALSE
    /\ ClearTimer
    /\ lastWc' = [NoWc EXCEPT !.op = "endCall", !.result = "onCallEnd",
                              !.transcript = transcript, !.duration = callDuration,
                              !.again = ClearsAgain]
    /\ UNCHANGED <<callId, micPermission, webCallError, transcript, callDuration, retellClientRef,
                   startTimeRef, durationIntervalRef, initializationRef, permReqs, secs, notice>>

WebInit ==
    /\ callId = "c1"
    /\ isConnected = FALSE
    /\ isConnecting = FALSE
    /\ micPermission = "pending"
    /\ webCallError = "null"
    /\ transcript = <<>>
    /\ callDuration = 0
    /\ retellClientRef = NoClient
    /\ startTimeRef = FALSE
    /\ durationIntervalRef = NoInterval
    /\ initializationRef = NoCallId
    /\ permReqs = <<>>
    /\ clients = <<>>
    /\ intervals = {}
    /\ secs = 0
    /\ notice = FALSE
    /\ lastWc = NoWc

\* the cleanup of the unmount stops the interval the ref holds; the model
\* follows a component until it is unmounted
UnmountStopping ==
    /\ ClearTimer
    /\ retellClientRef # NoClient
    /\ clients' = [clients EXCEPT ![retellClientRef].st = "stopped"]
    /\ lastWc' = [NoWc EXCEPT !.op = "unmount", !.again = ClearsAgain]
    /\ UNCHANGED <<callId, isConnected, isConnecting, micPermission, webCallError, transcript,
                   callDuration, retellClientRef, startTimeRef, durationIntervalRef,
                   initializationRef, permReqs, secs, notice>>

Unmount ==
    /\ ClearTimer
    /\ lastWc' = [NoWc EXCEPT !.op = "unmount", !.again = ClearsAgain]
    /\ UNCHANGED <<callId, isConnected, isConnecting, micPermission, webCallError, transcript,
                   callDuration, retellClientRef, startTimeRef, durationIntervalRef,
                   initializationRef, permReqs, clients, secs, notice>>

Mounted == lastWc.op # "unmount"

\* the sessions of a component whose permission requests are granted and
\* whose calls start
NextSession ==
    \/ \E id \in CallIds : MountEffect(id)
    \/ \E k \in 1..MaxSessions : PermissionGranted(k)
    \/ \E c \in 1..MaxSessions : CallStarted(c)
    \/ Second
    \/ \E c \in 1..MaxSessions : CallEnded(c)
    \/ endCall
    \/ Unmount

NextWebCall ==
    \/ \E id \in CallIds : MountEffect(id)
    \/ RetryClick
    \/ \E k \in 1..MaxSessions : PermissionGranted(k)
    \/ \E k \in 1..MaxSessions : PermissionDenied(k)
    \/ \E c \in 1..MaxSessions : StartCallRejects(c)
    \/ NoticeFires
    \/ \E c \in 1..MaxSessions : CallStarted(c)
    \/ Second
    \/ \E c \in 1..MaxSessions, payload \in Payloads : Update(c, payload)
    \/ \E c \in 1..MaxSessions : CallEnded(c)
    \/ \E c \in 1..MaxSessions : ErrorEvent(c)
    \/ endCall

---------------------------------------------------------------------------
(* The calls store: local calls and statistics.  A confidence is held in    *)
(* hundredths, and extractedData.successful is "true", "false" or           *)
(* "undefined".                                                             *)

Statuses == {"completed", "failed", "in-progress"}
Confidences == {0, 50, 70, 80}
Flags == {"true", "false", "undefined"}
HighConfidence == 70
NoStats ==
    [total |-> -1, completed |-> 0, failed |-> 0, inProgress |-> 0, successRate |-> 0,
     avgDuration |-> <<>>]

\* JavaScript numbers are IEEE 754 doubles: 53 significant bits, every result
\* rounded to the nearest double, a tie going to the even one.  The 53 bits
\* are held as a top part (the highest bit, or what a product carries there)
\* and four limbs of 13 bits; the double [top, limbs, shift] is
\* (top * 2^52 + limbs) / 2^(52 + shift).
Limb == 8192
Hundred == 100

RECURSIVE Pow2(_)
Pow2(n) == IF n = 0 THEN 1 ELSE 2 * Pow2(n - 1)

\* the least p with num * 2^p >= den
RECURSIVE LeadingShift(_, _)
LeadingShift(num, den) == IF num >= den THEN 0 ELSE 1 + LeadingShift(2 * num, den)

\* the next 52 bits of rest / den (rest < den), and what is left after them
QuotientLimbs(rest, den) ==
    LET a1 == rest * Limb
        a2 == (a1 % den) * Limb
        a3 == (a2 % den) * Limb
        a4 == (a3 % den) * Limb
    IN [limbs |-> <<a1 \div den, a2 \div den, a3 \div den, a4 \div den>>, rest |-> a4 % den]

\* top and limbs, the lowest limb having grown beyond its 13 bits
Carried(top, l1, l2, l3, l4) ==
    LET s3 == l3 + (l4 \div Limb)
        s2 == l2 + (s3 \div Limb)
        s1 == l1 + (s2 \div Limb)
    IN [top |-> top + (s1 \div Limb), limbs |-> <<s1 % Limb, s2 % Limb, s3 % Limb, l4 % Limb>>]

\* num / den for 0 < num < den
DivideDouble(num, den) ==
    LET p == LeadingShift(num, den)
        q == QuotientLimbs(num * Pow2(p) - den, den)
        up == \/ 2 * q.rest > den
              \/ 2 * q.rest = den /\ q.limbs[4] % 2 = 1
        m == Carried(1, q.limbs[1], q.limbs[2], q.limbs[3], q.limbs[4] + (IF up THEN 1 ELSE 0))
    IN [top |-> m.top, limbs |-> m.limbs, shift |-> p]

\* x * 100: the exact product has 53 + d bits, of which the d lowest are rounded off
TimesHundred(x) ==
    LET e == Carried(x.top * Hundred, x.limbs[1] * Hundred, x.limbs[2] * Hundred,
                     x.limbs[3] * Hundred, x.limbs[4] * Hundred)
        d == IF e.top >= 128 THEN 7 ELSE 6
        unit == Pow2(d)
        low == e.limbs[4] % unit
        up == \/ 2 * low > unit
              \/ 2 * low = unit /\ (e.limbs[4] \div unit) % 2 = 1
        r == Carried(e.top, e.limbs[1], e.limbs[2], e.limbs[3],
                     e.limbs[4] - low + (IF up THEN unit ELSE 0))
    IN [top |-> r.top, limbs |-> r.limbs, shift |-> x.shift]

\* Math.round of a double with shift >= 1: the whole part and the bit of the
\* half are in the top part, and a half goes up
MathRound(x) == (x.top \div Pow2(x.shift)) + ((x.top \div Pow2(x.shift - 1)) % 2)

\* Math.round((successful / total) * 100) for 0 <= successful <= total, total > 0
RoundedPercent(successful, total) ==
    IF successful = 0 THEN 0
    ELSE IF successful = total THEN Hundred
    ELSE MathRound(TimesHundred(DivideDouble(successful, total)))

\* the filter of calculateSuccessRate
IsSuccessful(call) ==
    /\ call.status = "completed"
    /\ \/ call.successful = "true"
       \/ call.confidence >= HighConfidence
       \/ call.successful = "undefined" /\ call.confidence = 0

calculateSuccessRate(list) ==
    IF Len(list) = 0 THEN 0
    ELSE RoundedPercent(Cardinality({k \in 1..Len(list) : IsSuccessful(list[k])}), Len(list))

IsListed(call) == TRUE

IsCompleted(call) == call.status = "completed"
IsFailed(call) == call.status = "failed"
IsInProgress(call) == call.status = "in-progress"

\* A text is held as the sequence of its characters.
Digits == <<"0", "1", "2", "3", "4", "5", "6", "7", "8", "9">>
Colon == ":"
NaN == -1
ZeroDuration == <<"0", Colon, "0", "0">>

\* Number.prototype.toString of a natural number
RECURSIVE NumberToString(_)
NumberToString(n) ==
    IF n < 10 THEN <<Digits[n + 1]>>
    ELSE NumberToString(n \div 10) \o <<Digits[(n % 10) + 1]>>

\* padStart(2, '0')
PadStart(s) ==
    CASE Len(s) = 0 -> <<"0", "0">>
      [] Len(s) = 1 -> <<"0">> \o s
      [] OTHER -> s

\* `${minutes}:${seconds.toString().padStart(2, '0')}`
FormatMinutesSeconds(minutes, seconds) ==
    IF minutes = NaN \/ seconds = NaN THEN <<"N", "a", "N", Colon, "N", "a", "N">>
    ELSE NumberToString(minutes) \o <<Colon>> \o PadStart(NumberToString(seconds))

\* split(':'): the parts between the colons
RECURSIVE Split(_)
Split(s) ==
    IF \A k \in 1..Len(s) : s[k] # Colon THEN <<s>>
    ELSE LET at == CHOOSE k \in 1..Len(s) : s[k] = Colon /\ \A j \in 1..(k - 1) : s[j] # Colon
         IN <<SubSeq(s, 1, at - 1)>> \o Split(SubSeq(s, at + 1, Len(s)))

\* Number(text) for a text of digits: the empty text is 0, any other text NaN
RECURSIVE ToNumber(_)
ToNumber(s) ==
    IF Len(s) = 0 THEN 0
    ELSE IF \E k \in 1..Len(s) : \A d \in 1..10 : Digits[d] # s[k] THEN NaN
    ELSE (CHOOSE d \in 0..9 : Digits[d + 1] = s[Len(s)]) + 10 * ToNumber(SubSeq(s, 1, Len(s) - 1))

\* the reducer of calculateAvgDuration: [minutes, seconds] of the split
\* duration, a missing part being undefined, which Number-arithmetic makes NaN
DurationSeconds(duration) ==
    LET parts == Split(duration)
        minutes == ToNumber(parts[1])
        seconds == IF Len(parts) < 2 THEN NaN ELSE ToNumber(parts[2])
    IN IF minutes = NaN \/ seconds = NaN THEN NaN ELSE (minutes * 60) + seconds

RECURSIVE TotalSeconds(_)
TotalSeconds(list) ==
    IF Len(list) = 0 THEN 0
    ELSE LET rest == TotalSeconds(Tail(list))
             this == DurationSeconds(Head(list).duration)
         IN IF rest = NaN \/ this = NaN THEN NaN ELSE this + rest

calculateAvgDuration(list) ==
    LET completedCalls == SelectSeq(list, IsCompleted)
    IN IF Len(completedCalls) = 0 THEN ZeroDuration
       ELSE LET totalSeconds == TotalSeconds(completedCalls)
                avgSeconds == IF totalSeconds = NaN THEN NaN
                              ELSE totalSeconds \div Len(completedCalls)
            IN IF avgSeconds = NaN THEN FormatMinutesSeconds(NaN, NaN)
               ELSE FormatMinutesSeconds(avgSeconds \div 60, avgSeconds % 60)

\* addCall: the new call goes to the front, with an id made of the time
addCall(status, confidence, flag) ==
    /\ Len(items["calls"]) < MaxCalls
    /\ items' = [items EXCEPT !["calls"] =
                    <<[id |-> 100 + now, driver |-> "d1", status |-> status,
                       confidence |-> confidence, successful |-> flag,
                       duration |-> ZeroDuration]>> \o @]
    /\ stats' = NoStats
    /\ UNCHANGED <<now, isLoading, error, lastFetched, storage, server, nextAgentId,
                   reqs, issued, hist, lastCall>>

\* setCalls with a list of MaxTally calls, the first n of them completed with
\* high confidence and the others failed
Tally(n) ==
    [k \in 1..MaxTally |->
        [id |-> k, driver |-> "d1", status |-> IF k <= n THEN "completed" ELSE "failed",
         confidence |-> 80, successful |-> "undefined", duration |-> ZeroDuration]]

setCalls(list) ==
    /\ items' = [items EXCEPT !["calls"] = list]
    /\ stats' = NoStats
    /\ UNCHANGED <<now, isLoading, error, lastFetched, storage, server, nextAgentId,
                   reqs, issued, hist, lastCall>>

getCallStats ==
    /\ stats' = [total |-> Len(items["calls"]),
                 completed |-> Cardinality({k \in 1..Len(items["calls"]) : IsCompleted(items["calls"][k])}),
                 failed |-> Cardinality({k \in 1..Len(items["calls"]) : IsFailed(items["calls"][k])}),
                 inProgress |-> Cardinality({k \in 1..Len(items["calls"]) : IsInProgress(items["calls"][k])}),
                 successRate |-> calculateSuccessRate(items["calls"]),
                 avgDuration |-> calculateAvgDuration(items["calls"])]
    /\ UNCHANGED storeVars

\* calls as the formatters of the program leave them: a duration of so many
\* seconds (kept beside the call), held as its m:ss text
SampleSeconds == {0, 45, 90, 120, 605}
SampleCall(status, seconds) ==
    [id |-> 1, driver |-> "d1", status |-> status, confidence |-> 80,
     successful |-> "undefined", seconds |-> seconds,
     duration |-> FormatMinutesSeconds(seconds \div 60, seconds % 60)]
SampleCalls == {SampleCall(status, seconds) : status \in Statuses, seconds \in SampleSeconds}
SampleLists == UNION {[1..n -> SampleCalls] : n \in 0..MaxListed}

NextStats ==
    \/ \E status \in Statuses, confidence \in Confidences, flag \in Flags :
          addCall(status, confidence, flag)
    \/ \E n \in 0..MaxTally : setCalls(Tally(n))
    \/ getCallStats

---------------------------------------------------------------------------
(* The calls store: search term and status filter.  The driver name and the  *)
(* load number are held as sequences of characters.                         *)

\* no answer yet: a list no filter gives
NoResult == <<[id |-> 0, status |-> "none"]>>

\* String.prototype.toLowerCase over the letters in use
Unchanged(s) == s
toLowerCase(s) ==
    [k \in 1..Len(s) |->
        CASE s[k] = "A" -> "a"
          [] s[k] = "B" -> "b"
          [] s[k] = "L" -> "l"
          [] OTHER -> s[k]]

\* String.prototype.includes
includes(s, part) ==
    \E at \in 0..(Len(s) - Len(part)) : SubSeq(s, at + 1, at + Len(part)) = part

matchesSearch(call, term) ==
    \/ term = <<>>
    \/ includes(toLowerCase(call.driver), toLowerCase(term))
    \/ includes(toLowerCase(call.loadNumber), toLowerCase(term))

matchesFilter(call, status) == status = "all" \/ call.status = status

RECURSIVE FilterCalls(_, _, _)
FilterCalls(list, term, status) ==
    IF Len(list) = 0 THEN <<>>
    ELSE (IF matchesSearch(Head(list), term) /\ matchesFilter(Head(list), status)
          THEN <<Head(list)>> ELSE <<>>) \o FilterCalls(Tail(list), term, status)

setSearchTerm(term) ==
    /\ searchTerm' = term
    /\ filtered' = NoResult
    /\ UNCHANGED statusFilter

setStatusFilter(status) ==
    /\ statusFilter' = status
    /\ filtered' = NoResult
    /\ UNCHANGED searchTerm

getFilteredCalls ==
    /\ filtered' = FilterCalls(items["calls"], searchTerm, statusFilter)
    /\ UNCHANGED <<searchTerm, statusFilter>>

SearchTerms == {<<>>, <<"a">>, <<"A", "B">>, <<"l", "1">>, <<"b", "a">>}
StatusFilters == {"all", "completed", "failed", "in-progress"}
Drivers == {<<"A", "b">>, <<"b", "A">>}
LoadNumbers == {<<"L", "1">>, <<"l", "2">>}
ListedCalls ==
    {[id |-> 1, driver |-> d, loadNumber |-> l, status |-> s, confidence |-> 0,
      successful |-> "undefined", duration |-> ZeroDuration] :
        d \in Drivers, l \in LoadNumbers, s \in Statuses}

ViewInit ==
    /\ searchTerm = <<>>
    /\ statusFilter = "all"
    /\ filtered = NoResult


NextFilter ==
    \/ \E term \in SearchTerms : setSearchTerm(term)
    \/ \E status \in StatusFilters : setStatusFilter(status)
    \/ getFilteredCalls

---------------------------------------------------------------------------
(* The theme of the UI store and App's startup effect.  A localStorage key  *)
(* is held as a sequence of characters.                                     *)

Absent == "absent"
Themes == {"light", "dark", "system"}

\* 'ai-voice-agent-theme'
ThemeKey ==
    <<"a", "i", "-", "v", "o", "i", "c", "e", "-", "a", "g", "e", "n", "t", "-",
      "t", "h", "e", "m", "e">>
CallStoreKey == <<"c", "a", "l", "l", "-", "s", "t", "o", "r", "e">>
AgentStoreKey == <<"a", "g", "e", "n", "t", "-", "s", "t", "o", "r", "e">>
RetellKey == <<"r", "e", "t", "e", "l", "l", "-", "t", "o", "k", "e", "n">>
SidebarKey == <<"s", "i", "d", "e", "b", "a", "r">>
LangKey == <<"l", "a", "n", "g">>
StorageKeys == {ThemeKey, CallStoreKey, AgentStoreKey, RetellKey, SidebarKey, LangKey}

\* the test of clearRetellLocalStorage on a key
isRetellKey(key) ==
    \/ includes(key, <<"c", "a", "l", "l">>)
    \/ includes(key, <<"r", "e", "t", "e", "l", "l">>)
    \/ includes(key, <<"a", "g", "e", "n", "t">>)
    \/ key = CallStoreKey
    \/ key = AgentStoreKey

\* clearRetellLocalStorage: the keys are collected, then removed
clearRetellLocalStorage(store) ==
    [key \in StorageKeys |-> IF store[key] # Absent /\ isRetellKey(key) THEN Absent ELSE store[key]]

\* localStorage.getItem('ai-voice-agent-theme') || 'system'
storedTheme == IF localStorage[ThemeKey] = Absent THEN "system" ELSE localStorage[ThemeKey]

\* setTheme of the UI store, as the theme toggle calls it
setTheme(t) ==
    /\ appLoaded
    /\ theme' = t
    /\ localStorage' = [localStorage EXCEPT ![ThemeKey] = t]
    /\ startedWith' = "none"
    /\ UNCHANGED appLoaded

\* App's startup effect: setTheme(storedTheme), then clearRetellLocalStorage()
AppStart ==
    /\ ~appLoaded
    /\ theme' = storedTheme
    /\ localStorage' = clearRetellLocalStorage([localStorage EXCEPT ![ThemeKey] = storedTheme])
    /\ appLoaded' = TRUE
    /\ startedWith' = localStorage[ThemeKey]

\* the page is loaded anew: the UI store has its initial state again
Reload ==
    /\ appLoaded
    /\ theme' = "system"
    /\ appLoaded' = FALSE
    /\ startedWith' = "none"
    /\ UNCHANGED localStorage

ThemeInit ==
    /\ theme = "system"
    /\ localStorage = [key \in StorageKeys |-> Absent]
    /\ appLoaded = FALSE
    /\ startedWith = "none"

NextTheme ==
    \/ AppStart
    \/ \E t \in Themes : setTheme(t)
    \/ Reload

---------------------------------------------------------------------------
(* The CallTrigger page and the call events of the calls store.  A call     *)
(* keeps the number of its creation as key; a placeholder gets a local id   *)
(* from the clock, and the remote system answers with its own call id.      *)

NoId == 0
NoHandler == [kind |-> "none", callStoreId |-> NoId, key |-> NoId]
NoWebCall == [callId |-> NoId, storeId |-> NoId]
NoFlow ==
    [op |-> "none", key |-> NoId, callId |-> NoId, data |-> <<>>, applied |-> FALSE,
     twin |-> <<>>]

\* the step was an action of the calls store
StoreEvent == [NoFlow EXCEPT !.op = "store"]

\* `call-${Date.now()}`: the awaits between two placeholders take time, so
\* their ids differ
LocalId(key) == 100 + key
KeyOf(id) == id - 100
\* the call_id of the remote system's answer
RemoteId(key) == 10 + key

Kinds == {"phone", "web"}
Heard == [role |-> "agent", content |-> "hi"]
\* what a session hands over when it ends: transcript and seconds
SessionData == {[transcript |-> <<>>, duration |-> 0], [transcript |-> <<Heard>>, duration |-> 90]}

\* addCallToStore: the call data of a placeholder
Placeholder(key) ==
    [key |-> key, id |-> LocalId(key), status |-> "pending", duration |-> ZeroDuration,
     confidence |-> 0, extractedData |-> "{}", transcript |-> <<>>]

\* { ...call, ...updates }
Merge(call, updates) ==
    [f \in DOMAIN call \cup DOMAIN updates |-> IF f \in DOMAIN updates THEN updates[f] ELSE call[f]]

\* updateCall: every call of that id takes the updates
updateCall(list, id, updates) ==
    [k \in 1..Len(list) |-> IF list[k].id = id THEN Merge(list[k], updates) ELSE list[k]]

getCallById(list, id) == \E k \in 1..Len(list) : list[k].id = id

\* activeCall: null
NoActiveCall == [id |-> NoId]

\* the object getCallById returns: the first call with the id
callById(list, id) ==
    IF getCallById(list, id)
    THEN list[CHOOSE k \in 1..Len(list) :
                  list[k].id = id /\ \A j \in 1..(k - 1) : list[j].id # id]
    ELSE NoActiveCall

StillPending == [status |-> "pending"]

\* the updates of the catch branch of handlePhoneCall / handleWebCall
Failure == [status |-> "failed"]

\* handlePhoneCall / handleWebCall up to the await of the request: the
\* placeholder is added first
handleCall(kind) ==
    /\ ~isCallInProgress
    /\ nextKey <= MaxPlaced
    /\ items' = [items EXCEPT !["calls"] = <<Placeholder(nextKey)>> \o @]
    /\ isCallInProgress' = TRUE
    /\ currentCallStoreId' = LocalId(nextKey)
    /\ handler' = [kind |-> kind, callStoreId |-> LocalId(nextKey), key |-> nextKey]
    /\ nextKey' = nextKey + 1
    /\ lastFlow' = [NoFlow EXCEPT !.op = "placed", !.key = nextKey]
    /\ UNCHANGED <<activeCall, webCallData>>

\* result.call_id || callStoreId
orElse(call_id, callStoreId) == IF call_id # NoId THEN call_id ELSE callStoreId

\* the request resolved with that call_id (NoId: with none): the try block
\* goes on, then the finally block
handleCallResolved(call_id) ==
    /\ handler # NoHandler
    /\ call_id \in {RemoteId(handler.key), NoId}
    /\ items' = [items EXCEPT !["calls"] =
                    updateCall(@, handler.callStoreId,
                               [id |-> orElse(call_id, handler.callStoreId),
                                status |-> "in-progress"])]
    /\ webCallData' = IF handler.kind = "web"
                      THEN [callId |-> call_id, storeId |-> handler.callStoreId]
                      ELSE webCallData
    /\ isCallInProgress' = FALSE
    /\ currentCallStoreId' = NoId
    /\ handler' = NoHandler
    /\ lastFlow' = [NoFlow EXCEPT !.op = "resolved", !.key = handler.key,
                                  !.callId = call_id]
    /\ UNCHANGED <<activeCall, nextKey>>

\* the request (or the import) rejected: the catch block, then the finally block
handleCallRejected ==
    /\ handler # NoHandler
    /\ items' = [items EXCEPT !["calls"] = updateCall(@, handler.callStoreId, Failure)]
    /\ isCallInProgress' = FALSE
    /\ currentCallStoreId' = NoId
    /\ handler' = NoHandler
    /\ lastFlow' = [NoFlow EXCEPT !.op = "rejected", !.key = handler.key]
    /\ UNCHANGED <<activeCall, webCallData, nextKey>>

\* `${Math.floor(duration / 60)}:${(duration % 60).toString().padStart(2, '0')}`
formattedDuration(seconds) == FormatMinutesSeconds(seconds \div 60, seconds % 60)

\* the transcript of SimpleWebCall in the format of the store
storeTranscript(entries) ==
    [k \in 1..Len(entries) |->
        [speaker |-> IF entries[k].role = "agent" THEN "Agent" ELSE "Driver",
         text |-> entries[k].content, timestamp |-> "ISO"]]

\* the updates of handleWebCallEnd
WebCallCompleted(data) ==
    [status |-> "completed", duration |-> formattedDuration(data.duration),
     transcript |-> storeTranscript(data.transcript), confidence |-> 90]

\* the webhook payload of the same session end: duration_ms and
\* transcript_object, each entry without start time
hookTranscript(entries) ==
    [k \in 1..Len(entries) |->
        [speaker |-> IF entries[k].role = "agent" THEN "Agent" ELSE "Driver",
         text |-> entries[k].content, timestamp |-> "00:00"]]

\* duration_ms ? `${Math.floor(ms / 60000)}:${Math.floor((ms % 60000) / 1000)...}` : '0:00'
hookDuration(ms) ==
    IF ms = 0 THEN ZeroDuration
    ELSE FormatMinutesSeconds(ms \div 60000, (ms % 60000) \div 1000)

\* the updates of handleCallEnded
CallEndedUpdates(data) ==
    [status |-> "completed", duration |-> hookDuration(data.duration * 1000),
     transcript |-> hookTranscript(data.transcript), extractedData |-> "{}"]

\* what handleCallEnded leaves of the calls and of activeCall
AfterCallEnded(list, id, data) ==
    [calls |-> updateCall(list, id, CallEndedUpdates(data)), activeCall |-> NoActiveCall]

\* handleWebCallEnd, as onCallEnd of the SimpleWebCall on display.  The
\* handler the session calls belongs to a render of the page: the latest
\* one, or the one that mounted the component, whose currentCallStoreId
\* was still the placeholder's id when the page renders once per setState.
handleWebCallEnd(captured, data) ==
    /\ webCallData # NoWebCall
    /\ captured \in {currentCallStoreId, webCallData.storeId}
    /\ items' = [items EXCEPT !["calls"] =
                    IF captured # NoId THEN updateCall(@, captured, WebCallCompleted(data))
                    ELSE @]
    /\ webCallData' = NoWebCall
    /\ currentCallStoreId' = NoId
    /\ lastFlow' = [NoFlow EXCEPT !.op = "handleWebCallEnd", !.callId = webCallData.callId,
                                  !.key = KeyOf(webCallData.storeId),
                                  !.data = data,
                                  !.applied = getCallById(items["calls"], captured),
                                  !.twin = AfterCallEnded(items["calls"], captured, data)]
    /\ UNCHANGED <<activeCall, isCallInProgress, handler, nextKey>>

\* the call ids a webhook event can carry: those of the remote system
WebhookIds == {RemoteId(k) : k \in 1..MaxPlaced}

\* the ids a local store action can name
KnownIds == {items["calls"][k].id : k \in 1..Len(items["calls"])} \cup WebhookIds

\* handleCallStarted: a known call goes in progress; an unknown one is added
\* by addCall under `call-${Date.now()}` and then renamed by
\* updateCall(call.id, {id: callId}).  sameMs: the placeholder of the step
\* before was added in the same millisecond, so it has that local id too.
handleCallStarted(id, sameMs) ==
    /\ id \in WebhookIds
    /\ sameMs => (lastFlow.op = "placed" /\ ~getCallById(items["calls"], id))
    /\ IF getCallById(items["calls"], id)
       THEN /\ items' = [items EXCEPT !["calls"] =
                            updateCall(@, id, [status |-> "in-progress", duration |-> ZeroDuration])]
            /\ UNCHANGED nextKey
       ELSE /\ nextKey <= MaxPlaced + 1
            /\ LET localId == IF sameMs THEN LocalId(lastFlow.key) ELSE LocalId(nextKey)
                   newCall == [Placeholder(nextKey) EXCEPT !.id = localId, !.status = "in-progress"]
               IN items' = [items EXCEPT !["calls"] =
                               updateCall(<<newCall>> \o @, localId, [id |-> id])]
            /\ nextKey' = nextKey + 1
    /\ activeCall' = callById(items'["calls"], id)
    /\ lastFlow' = StoreEvent
    /\ UNCHANGED <<isCallInProgress, currentCallStoreId, webCallData, handler>>

handleCallEnded(id, data) ==
    /\ id \in WebhookIds
    /\ items' = [items EXCEPT !["calls"] = AfterCallEnded(@, id, data).calls]
    /\ activeCall' = AfterCallEnded(items["calls"], id, data).activeCall
    /\ lastFlow' = StoreEvent
    /\ UNCHANGED <<isCallInProgress, currentCallStoreId, webCallData, handler, nextKey>>

\* handleCallAnalyzed: confidence 0.95 or 0.3, and the analysis in extractedData
handleCallAnalyzed(id, successful) ==
    /\ id \in WebhookIds
    /\ items' = [items EXCEPT !["calls"] =
                    updateCall(@, id, [confidence |-> IF successful THEN 95 ELSE 30,
                                       extractedData |-> "analysis"])]
    /\ lastFlow' = StoreEvent
    /\ UNCHANGED <<activeCall, isCallInProgress, currentCallStoreId, webCallData, handler, nextKey>>

\* endCall of the calls store: the duration is the time since the call's timestamp
endStoreCall(id, data) ==
    /\ id \in KnownIds
    /\ items' = [items EXCEPT !["calls"] =
                    updateCall(@, id, [status |-> "completed", extractedData |-> "{}",
                                       transcript |-> hookTranscript(data.transcript),
                                       duration |-> formattedDuration(data.duration)])]
    /\ activeCall' = NoActiveCall
    /\ lastFlow' = StoreEvent
    /\ UNCHANGED <<isCallInProgress, currentCallStoreId, webCallData, handler, nextKey>>

cancelCall(id) ==
    /\ id \in KnownIds
    /\ items' = [items EXCEPT !["calls"] = updateCall(@, id, [status |-> "cancelled"])]
    /\ activeCall' = NoActiveCall
    /\ lastFlow' = StoreEvent
    /\ UNCHANGED <<isCallInProgress, currentCallStoreId, webCallData, handler, nextKey>>

FlowInit ==
    /\ activeCall = NoActiveCall
    /\ isCallInProgress = FALSE
    /\ currentCallStoreId = NoId
    /\ webCallData = NoWebCall
    /\ handler = NoHandler
    /\ nextKey = 1
    /\ lastFlow = NoFlow

PageInit == ViewInit /\ storageDenied = FALSE /\ FlowInit /\ ThemeInit

AllIds == {RemoteId(k) : k \in 1..MaxPlaced} \cup {LocalId(k) : k \in 1..MaxPlaced}

NextFlow ==
    \/ \E kind \in Kinds : handleCall(kind)
    \/ \E call_id \in AllIds \cup {NoId} : handleCallResolved(call_id)
    \/ handleCallRejected
    \/ \E captured \in AllIds \cup {NoId}, data \in SessionData : handleWebCallEnd(captured, data)
    \/ \E id \in AllIds : handleCallStarted(id, FALSE) /\ nextKey' <= MaxPlaced + 1
    \/ \E id \in AllIds, data \in SessionData : handleCallEnded(id, data)
    \/ \E id \in AllIds, successful \in BOOLEAN : handleCallAnalyzed(id, successful)
    \/ \E id \in AllIds, data \in SessionData : endStoreCall(id, data)
    \/ \E id \in AllIds : cancelCall(id)

---------------------------------------------------------------------------
(* Specifications *)

vars == <<storeVars, webVars, stats, pageVars>>

Init == StoreInit /\ WebInit /\ stats = NoStats /\ PageInit

\* the views only read the agents and voices stores
SpecEnsure == Init /\ [][NextEnsure /\ UNCHANGED <<webVars, stats, pageVars>>]_vars

\* the same, with page loads
SpecCache == Init /\ [][(NextEnsure \/ LoadPage) /\ UNCHANGED <<webVars, stats, pageVars>>]_vars

\* the agents store with its mutations
SpecAgents == Init /\ [][NextAgents /\ UNCHANGED <<webVars, stats, pageVars>>]_vars

\* the agents store variant without cache
SpecNoCache == Init /\ [][NextNoCache /\ UNCHANGED <<webVars, stats, pageVars>>]_vars

\* the calls store
SpecCalls == Init /\ [][NextCalls /\ UNCHANGED <<webVars, stats, pageVars>>]_vars

\* one mounted SimpleWebCall component, in a browser without cache entries
InitWebCall == Init /\ storage = [s \in Stores |-> AbsentEntry]

SpecWebCall == InitWebCall /\ [][NextWebCall /\ UNCHANGED <<storeVars, stats, pageVars>>]_vars

\* the component from the permission request to the end of its sessions
NextPermission ==
    \/ \E id \in CallIds : MountEffect(id)
    \/ RetryClick
    \/ \E k \in 1..MaxSessions : PermissionGranted(k)
    \/ \E k \in 1..MaxSessions : PermissionDenied(k)
    \/ \E c \in 1..MaxSessions : StartCallRejects(c)
    \/ NoticeFires
    \/ \E c \in 1..MaxSessions : CallStarted(c)
    \/ \E c \in 1..MaxSessions : CallEnded(c)
    \/ \E c \in 1..MaxSessions : ErrorEvent(c)
    \/ endCall

SpecPermission ==
    InitWebCall /\ [][NextPermission /\ UNCHANGED <<storeVars, stats, pageVars>>]_vars

\* a session from its start, with the updates it receives
NextUpdates ==
    \/ \E id \in CallIds : MountEffect(id)
    \/ \E k \in 1..MaxSessions : PermissionGranted(k)
    \/ \E c \in 1..MaxSessions : CallStarted(c)
    \/ Second
    \/ \E c \in 1..MaxSessions, payload \in Payloads : Update(c, payload)

SpecUpdates ==
    InitWebCall /\ [][NextUpdates /\ UNCHANGED <<storeVars, stats, pageVars>>]_vars

SpecSession ==
    InitWebCall /\ [][Mounted /\ NextSession /\ UNCHANGED <<storeVars, stats, pageVars>>]_vars

\* the calls of the Results view and their statistics
SpecStats == InitWebCall /\ [][NextStats /\ UNCHANGED <<webVars, pageVars>>]_vars

\* the statistics of any list of calls with durations
InitDurations ==
    /\ WebInit
    /\ PageInit
    /\ stats = NoStats
    /\ now = 1
    /\ storage = [s \in Stores |-> AbsentEntry]
    /\ items \in {[s \in Stores |-> IF s = "calls" THEN list ELSE <<>>] : list \in SampleLists}
    /\ lastFetched = [s \in Stores |-> NoStamp]
    /\ isLoading = [s \in Stores |-> FALSE]
    /\ error = [s \in Stores |-> "null"]
    /\ server = [s \in Stores |-> <<>>]
    /\ nextAgentId = 2
    /\ reqs = <<>>
    /\ issued = 0
    /\ hist = [s \in Stores |-> NoHist]
    /\ lastCall = NoActiveCall

SpecDurations == InitDurations /\ [][getCallStats /\ UNCHANGED <<webVars, pageVars>>]_vars

\* the Results view over any list of calls
InitFilter ==
    /\ WebInit
    /\ PageInit
    /\ stats = NoStats
    /\ now = 1
    /\ storage = [s \in Stores |-> AbsentEntry]
    /\ items \in {[s \in Stores |-> IF s = "calls" THEN list ELSE <<>>] :
                      list \in UNION {[1..n -> ListedCalls] : n \in 0..MaxFiltered}}
    /\ lastFetched = [s \in Stores |-> NoStamp]
    /\ isLoading = [s \in Stores |-> FALSE]
    /\ error = [s \in Stores |-> "null"]
    /\ server = [s \in Stores |-> <<>>]
    /\ nextAgentId = 2
    /\ reqs = <<>>
    /\ issued = 0
    /\ hist = [s \in Stores |-> NoHist]
    /\ lastCall = NoActiveCall

SpecFilter ==
    InitFilter /\ [][NextFilter /\ UNCHANGED <<storeVars, webVars, stats, storageDenied, flowVars, themeVars>>]_vars

\* the agents store, with localStorage granted or refused for the whole visit
InitStorage ==
    /\ StoreInit /\ WebInit /\ stats = NoStats
    /\ ViewInit /\ FlowInit /\ ThemeInit /\ storageDenied \in BOOLEAN

\* the CallTrigger page with the calls store and its call events
SpecFlow ==
    InitWebCall /\
    [][NextFlow /\ UNCHANGED <<now, isLoading, error, lastFetched, storage, server, nextAgentId,
                               reqs, issued, hist, lastCall, webVars, stats, viewVars,
                               storageDenied, themeVars>>]_vars

\* what the browser holds when the app is opened
InitTheme ==
    /\ StoreInit /\ WebInit /\ stats = NoStats
    /\ ViewInit /\ FlowInit /\ storageDenied = FALSE
    /\ theme = "system"
    /\ localStorage \in {s \in [StorageKeys -> Themes \cup {Absent, "data"}] :
                            /\ s[ThemeKey] # "data"
                            /\ \A key \in StorageKeys \ {ThemeKey} : s[key] \in {Absent, "data"}}
    /\ appLoaded = FALSE
    /\ startedWith = "none"

\* the theme over page loads
SpecTheme ==
    InitTheme /\
    [][NextTheme /\ UNCHANGED <<storeVars, webVars, stats, viewVars, storageDenied, flowVars>>]_vars

\* the store variables the CallTrigger page does not write
requestVars ==
    <<now, isLoading, error, lastFetched, storage, server, nextAgentId, reqs, issued, hist,
      lastCall>>

\* the calls of the page and of the webhook beside the requests of the store
NextPlaced ==
    \/ /\ \/ \E kind \in Kinds : handleCall(kind)
          \/ \E call_id \in AllIds \cup {NoId} : handleCallResolved(call_id)
          \/ handleCallRejected
          \/ \E id \in AllIds, sameMs \in BOOLEAN : handleCallStarted(id, sameMs)
       /\ UNCHANGED requestVars
    \/ /\ \/ fetchCalls
          \/ initiateCall
          \/ \E i \in 1..MaxRequests : ServerOk(i)
          \/ \E i \in 1..MaxRequests : ServerFail(i)
          \/ \E i \in 1..MaxRequests : fetchCallsOk(i)
          \/ \E i \in 1..MaxRequests : fetchCallsFail(i)
          \/ \E i \in 1..MaxRequests : initiateCallFail(i)
       /\ UNCHANGED flowVars
    \/ /\ \E i \in 1..MaxRequests : initiateCallOk(i)
       /\ activeCall' = NoActiveCall
       /\ lastFlow' = StoreEvent
       /\ UNCHANGED <<isCallInProgress, currentCallStoreId, webCallData, handler, nextKey>>

SpecPlaced ==
    InitWebCall /\
    [][NextPlaced /\ UNCHANGED <<webVars, stats, viewVars, storageDenied, themeVars>>]_vars

\* the calls of the store actions that set isLoading
Calling ==
    /\ \/ FetchCall("agents")
       \/ addAgent
       \/ updateAgent
       \/ deleteAgent
       \/ fetchCalls
       \/ initiateCall
    /\ UNCHANGED <<webVars, stats, pageVars>>

\* a request is answered
Answering ==
    /\ \/ \E i \in 1..MaxRequests : ServerOk(i)
       \/ \E i \in 1..MaxRequests : ServerFail(i)
    /\ UNCHANGED <<webVars, stats, pageVars>>

\* the action that awaited an answered request goes on
Continuing ==
    \/ /\ \/ \E i \in 1..MaxRequests : FetchOk(i)
          \/ \E i \in 1..MaxRequests : FetchFail(i)
          \/ \E i \in 1..MaxRequests : MutationOk(i)
          \/ \E i \in 1..MaxRequests : MutationFail(i)
          \/ \E i \in 1..MaxRequests : fetchCallsOk(i)
          \/ \E i \in 1..MaxRequests : fetchCallsFail(i)
          \/ \E i \in 1..MaxRequests : initiateCallFail(i)
       /\ UNCHANGED <<webVars, stats, pageVars>>
    \/ /\ \E i \in 1..MaxRequests : initiateCallOk(i)
       /\ activeCall' = NoActiveCall
       /\ lastFlow' = StoreEvent
       /\ UNCHANGED <<isCallInProgress, currentCallStoreId, webCallData, handler, nextKey>>
       /\ UNCHANGED <<webVars, stats, viewVars, storageDenied, themeVars>>

NextLoading == Calling \/ Answering \/ Continuing

\* both stores under any interleaving of their actions; every request is
\* answered and every answer is handled
SpecLoading ==
    InitWebCall /\ [][NextLoading]_vars /\ WF_vars(Answering) /\ WF_vars(Continuing)

SpecStorage == InitStorage /\ [][NextStorage /\ UNCHANGED <<webVars, stats, pageVars>>]_vars

---------------------------------------------------------------------------
(* Claims about the stores *)

UnforcedInFlight(s) ==
    {i \in 1..Len(reqs) : reqs[i].store = s /\ reqs[i].kind = "getAll" /\ ~reqs[i].forced}

ListCallIssued ==
    lastCall.op \in {"fetch", "ensure"} /\ ~lastCall.forced /\ lastCall.result = "issued"

\* C1 as stated: whatever the outcome of the earlier request, an unforced
\* list request is issued at least one TTL after the one before it, and no
\* two of them are in flight together.
C1_OneRequestPerWindowAnyOutcome ==
    /\ \A s \in CachedStores : Cardinality(UnforcedInFlight(s)) <= 1
    /\ ListCallIssued =>
          \/ lastCall.prev.res = "none"
          \/ now - lastCall.prev.at >= CACHE_DURATION

\* C1 amended: with only ensure...Loaded / fetch...() calls on a store, no two
\* unforced list requests are in flight together, and a request is issued
\* less than one TTL after the one before it only when that one failed.
C1_OneSuccessfulRequestPerWindow ==
    /\ \A s \in CachedStores : Cardinality(UnforcedInFlight(s)) <= 1
    /\ ListCallIssued =>
          \/ lastCall.prev.res \in {"none", "fail"}
          \/ lastCall.prev.res = "ok" /\ now - lastCall.prev.at >= CACHE_DURATION

\* an ensure...Loaded call that found a request of this window answered, and returned
C1_Witness ==
    /\ lastCall.op = "ensure" /\ lastCall.result = "skipped"
    /\ ~lastCall.loading
    /\ lastCall.prev.res = "ok"
    /\ now > lastCall.prev.at

\* C2: an envelope stamped T is valid at every read time t < T + TTL and
\* invalid at every t >= T + TTL: a page load takes the envelope over in the
\* first case and starts empty in the second, and an unforced fetch on an
\* idle store is skipped in the first case and issued in the second.
C2_EnvelopeValidForTtl ==
    /\ lastCall.op = "load" =>
          \A s \in CachedStores :
             storage[s].st = "json" =>
                IF now < storage[s].lastFetched + CACHE_DURATION
                THEN lastFetched[s] = storage[s].lastFetched /\ items[s] = storage[s].items
                ELSE lastFetched[s] = NoStamp /\ items[s] = <<>>
    /\ (lastCall.op = "fetch" /\ ~lastCall.loading /\ lastFetched[lastCall.store] # NoStamp) =>
          (lastCall.result = "skipped" <=> now < lastFetched[lastCall.store] + CACHE_DURATION)

\* a page load at the last valid minute of an envelope, followed by a fetch call
C2_Witness ==
    /\ lastCall.op = "fetch" /\ lastCall.result = "skipped" /\ ~lastCall.loading
    /\ hist[lastCall.store] = NoHist
    /\ now = lastFetched[lastCall.store] + CACHE_DURATION - 1

\* C6 as stated: every failed create, update or delete sets the error and
\* rejects the promise of the action.
C6_MutationFailureRethrown ==
    lastCall.op = "mutationFailed" =>
        lastCall.result = "rejected" /\ error["agents"] # "null"

HasItem(list, a) == \E k \in 1..Len(list) : list[k] = a

\* C14: none of the cache adapter operations load, save and invalidate
\* throws to the store action that calls it, whatever the state of
\* localStorage: the action goes on as after a cache miss.
C14_CacheAdapterNeverThrows == lastCall.op # "invalidateThrew"

C7_FetchFailureKeepsCollection ==
    [][lastCall'.op = "fetchFailed" =>
          /\ items' = items
          /\ error'[lastCall'.store] # "null"
          /\ ~isLoading'[lastCall'.store]]_vars

\* C8 as stated: fetchCalls issues no request and changes nothing while a
\* calls fetch is loading, or while the calls fetched last are still fresh.
C8_FetchCallsGuarded ==
    (/\ lastCall.op = "fetchCalls"
     /\ \/ lastCall.loading
        \/ lastCall.prev.res = "ok" /\ now - lastCall.prev.at < CACHE_DURATION)
    => lastCall.result = "skipped"

---------------------------------------------------------------------------
(* Claims about the SimpleWebCall component *)

SessionEnded == lastWc.op \in {"callEnded", "endCall"} /\ lastWc.result = "onCallEnd"

\* C3 as stated: while a session for a call identifier waits for permission,
\* connects or is active, the effect firing again for that identifier starts
\* nothing, and no call identifier ever has two such sessions.
C3_ReinitializationIsNoOp ==
    /\ \A id \in CallIds : Cardinality(Awaiting(id)) + Cardinality(Connected(id)) <= 1
    /\ (lastWc.op = "effect" /\ lastWc.live) => lastWc.result = "skipped"

\* C4 as stated: after the local end-call request or the call_ended event,
\* the reference that tracks the session in flight is cleared and the timer
\* is stopped, and no trigger clears a timer that was cleared before.
C4_EndClearsOnce ==
    SessionEnded =>
        /\ initializationRef = NoCallId
        /\ durationIntervalRef \notin intervals
        /\ ~lastWc.again

\* C5 as stated: the transcript and the duration handed to onCallEnd are the
\* component's transcript and callDuration at the moment of ending.
C5_FinalValuesHandedOver ==
    SessionEnded =>
        /\ lastWc.transcript = transcript
        /\ lastWc.duration = callDuration

\* C13: an update event without a transcript, with a transcript that is no
\* array, with an empty array, or with blank utterances only leaves the
\* transcript shown as it was before the event.
C13_BlankUpdateKeepsTranscript ==
    lastWc.op = "update" => transcript = lastWc.transcript

\* an update with nothing said has come while the greeting was shown
C13_Witness ==
    /\ lastWc.op = "update"
    /\ lastWc.transcript = <<Greeting>>
    /\ transcript = <<Greeting>>

---------------------------------------------------------------------------
(* Claims about the statistics *)

Calls == items["calls"]

\* the calls the claim counts as successful
Counted ==
    {k \in 1..Len(Calls) :
        /\ Calls[k].status = "completed"
        /\ \/ Calls[k].successful = "true"
           \/ Calls[k].confidence >= 70
           \/ Calls[k].successful = "undefined" /\ Calls[k].confidence = 0}

\* the integer nearest to 100 * S / N, the half going up
NearestPercent(S, N) ==
    CHOOSE r \in 0..100 : 2 * N * r <= 200 * S + N /\ 200 * S + N < 2 * N * (r + 1)

\* C10: the success rate getCallStats returns is round(100 * S / N) over all
\* N calls, S counting the completed calls that are flagged successful, or
\* have a confidence of 0.7 or more, or have no flag and a confidence of
\* exactly 0; it is 0 for no calls, 100 for one completed call of confidence
\* 0.8, 100 for one completed call of confidence 0 without flag, and 0 for one
\* failed call.
C10_SuccessRate ==
    stats # NoStats =>
        /\ stats.total = Len(Calls)
        /\ Len(Calls) = 0 => stats.successRate = 0
        /\ Len(Calls) > 0 => stats.successRate = NearestPercent(Cardinality(Counted), Len(Calls))
        /\ Len(Calls) = 1 =>
              /\ (Calls[1].status = "completed" /\ Calls[1].confidence = 80) => stats.successRate = 100
              /\ (/\ Calls[1].status = "completed" /\ Calls[1].confidence = 0
                  /\ Calls[1].successful = "undefined") => stats.successRate = 100
              /\ Calls[1].status = "failed" => stats.successRate = 0

\* the completed calls, by position
CompletedAt == {k \in 1..Len(Calls) : Calls[k].status = "completed"}

RECURSIVE SumSeconds(_)
SumSeconds(at) ==
    IF at = {} THEN 0
    ELSE LET k == CHOOSE k \in at : TRUE IN Calls[k].seconds + SumSeconds(at \ {k})

\* C11: the average duration getCallStats returns is the floor of the mean of
\* the completed calls' durations in seconds, written m:ss with two digits
\* of seconds; calls that are not completed do not enter it; it is "0:00"
\* without completed calls and "1:45" for completed calls of "1:30" and
\* "2:00".
C11_AverageDuration ==
    stats # NoStats =>
        /\ CompletedAt = {} => stats.avgDuration = <<"0", ":", "0", "0">>
        /\ CompletedAt # {} =>
              LET mean == SumSeconds(CompletedAt) \div Cardinality(CompletedAt)
              IN /\ Len(stats.avgDuration) >= 4
                 /\ stats.avgDuration[Len(stats.avgDuration) - 2] = ":"
                 /\ stats.avgDuration =
                       FormatMinutesSeconds(mean \div 60, mean % 60)
        /\ {Calls[k].duration : k \in CompletedAt} = {<<"1", ":", "3", "0">>, <<"2", ":", "0", "0">>}
             /\ Cardinality(CompletedAt) = 2
           => stats.avgDuration = <<"1", ":", "4", "5">>

\* statistics over completed calls of 1:30 and 2:00 with a failed call of
\* 10:05 between them
C11_Witness ==
    /\ stats # NoStats
    /\ Len(Calls) = 3
    /\ Calls[1].status = "completed" /\ Calls[1].duration = <<"1", ":", "3", "0">>
    /\ Calls[2].status = "failed" /\ Calls[2].duration = <<"1", "0", ":", "0", "5">>
    /\ Calls[3].status = "completed" /\ Calls[3].duration = <<"2", ":", "0", "0">>
    /\ stats.avgDuration = <<"1", ":", "4", "5">>

---------------------------------------------------------------------------
(* Claims about the filter *)

\* two characters that are the same letter, whatever their case
SameLetter(a, b) == a = b \/ {a, b} \in {{"a", "A"}, {"b", "B"}, {"l", "L"}}

ContainsNoCase(text, term) ==
    \E at \in 0..(Len(text) - Len(term)) :
        \A k \in 1..Len(term) : SameLetter(text[at + k], term[k])

\* the positions of the calls the claim keeps
Kept ==
    {k \in 1..Len(Calls) :
        /\ \/ Len(searchTerm) = 0
           \/ ContainsNoCase(Calls[k].driver, searchTerm)
           \/ ContainsNoCase(Calls[k].loadNumber, searchTerm)
        /\ statusFilter = "all" \/ Calls[k].status = statusFilter}

\* C12: getFilteredCalls returns exactly the calls whose driver name or load
\* number contains the search term, letters compared without case (every
\* call for the empty term), and whose status is the status filter (any
\* status for "all"), in the order of the collection.
C12_FilteredCalls ==
    filtered # NoResult =>
        /\ Len(filtered) = Cardinality(Kept)
        /\ \A j \in 1..Len(filtered) :
              filtered[j] = Calls[CHOOSE k \in Kept : Cardinality({i \in Kept : i <= k}) = j]

\* a search in another case than the driver's name, with a status filter,
\* keeps the second of two calls only
C12_Witness ==
    /\ filtered # NoResult
    /\ Len(Calls) = 2
    /\ searchTerm = <<"b", "a">>
    /\ statusFilter = "completed"
    /\ Calls[1].driver = <<"b", "A">> /\ Calls[1].status = "failed"
    /\ Calls[2].driver = <<"b", "A">> /\ Calls[2].status = "completed"
    /\ filtered = <<Calls[2]>>

---------------------------------------------------------------------------
(* Claims about the trigger flow *)

EndedCalls == {k \in 1..Len(Calls) : Calls[k].key = lastFlow.key}

\* C16: when the session of a web call created through the trigger flow
\* has ended with transcript and duration, the call is completed in the
\* store and carries that transcript and duration.
C16_EndedWebCallCompleted ==
    lastFlow.op = "handleWebCallEnd" =>
        \A k \in EndedCalls :
            /\ Calls[k].status = "completed"
            /\ Calls[k].duration = formattedDuration(lastFlow.data.duration)
            /\ Calls[k].transcript = storeTranscript(lastFlow.data.transcript)

\* C17: a session end handled by handleWebCallEnd leaves the calls and
\* activeCall as handleCallEnded would have left them for the same call,
\* transcript and duration (taken here where the bridge's update found the
\* call).
C17_SameMutation ==
    (lastFlow.op = "handleWebCallEnd" /\ lastFlow.applied) =>
        /\ Calls = lastFlow.twin.calls
        /\ activeCall = lastFlow.twin.activeCall

Rank(status) ==
    IF status = "pending" THEN 0 ELSE IF status = "in-progress" THEN 1 ELSE 2

\* C18: no step moves a call backwards: from in-progress to pending, or
\* from completed, failed or cancelled to pending or in-progress.
C18_MonotonicStatus ==
    [][\A i \in 1..Len(Calls) : \A j \in 1..Len(Calls') :
            Calls[i].key = Calls'[j].key => Rank(Calls'[j].status) >= Rank(Calls[i].status)]_vars

---------------------------------------------------------------------------
(* Claims about the theme *)

\* C20: when the theme key held a theme before the app started, it holds
\* that theme after App's startup effect.
C20_ThemePersists ==
    (appLoaded /\ startedWith \in Themes) => localStorage[ThemeKey] = startedWith

---------------------------------------------------------------------------
(* Claims about the sessions of the SimpleWebCall component *)

C22_UpdateReplacesWholesale ==
    lastWc.op = "replaced" =>
        /\ \E payload \in Payloads : transcript = newEntries(payload, secs)
        /\ lastWc.shown => lastWc.result = "same"

---------------------------------------------------------------------------
(* Claims about the loading flag and the concurrent requests of the stores *)

\* C23: while a request of an agents-store action is in flight, isLoading
\* of the agents store is true.
C23_LoadingWhileInFlight ==
    (\E k \in 1..Len(reqs) : reqs[k].store = "agents") => isLoading["agents"]

\* C24: when no request is outstanding and the forced list request that
\* followed the latest merged mutation succeeded, the agents in memory and
\* the cache envelope are the server's agent list.
C24_RefetchedCopyMatchesServer ==
    (reqs = <<>> /\ hist["agents"].forcedOk) =>
        /\ items["agents"] = MapList("agents", server["agents"])
        /\ storage["agents"].st = "json"
        /\ storage["agents"].items = MapList("agents", server["agents"])

\* C25: while handlePhoneCall or handleWebCall awaits its request, a step
\* that handles a response of fetchCalls leaves the placeholder it added in
\* the calls collection.
C25_PlaceholderStays ==
    [][(/\ handler # NoHandler
        /\ getCallById(Calls, handler.callStoreId)
        /\ \E i \in 1..Len(reqs) :
               /\ reqs[i].store = "calls" /\ reqs[i].kind = "getAll" /\ reqs[i].st = "ok"
               /\ reqs' = RemoveAt(reqs, i))
       => getCallById(Calls', handler.callStoreId)]_vars

\* C26: no two entries of the calls collection have the same id.
C26_UniqueCallIds ==
    \A i \in 1..Len(Calls) : \A j \in 1..Len(Calls) : i # j => Calls[i].id # Calls[j].id

\* C27: activeCall is null or is the entry of the calls collection that has
\* its id, field for field.
C27_ActiveCallIsEntry ==
    activeCall = NoActiveCall \/ activeCall = callById(Calls, activeCall.id)

\* C28: the duration timer runs only while the session is active: at most
\* one interval runs, and none runs when the component is not connected.
C28_TimerOnlyWhileActive ==
    /\ Cardinality(intervals) <= 1
    /\ intervals # {} => isConnected

\* C29: onCallEnd is called at most once for a session, and once for a
\* session that call_ended or the End Call button has ended.
C29_OnCallEndOnce ==
    \A c \in 1..Len(clients) :
        /\ clients[c].handed <= 1
        /\ clients[c].st = "stopped" => clients[c].handed = 1

\* C30: whenever isLoading of the agents store or of the calls store is true,
\* it is false again later.
C30_LoadingEnds ==
    /\ isLoading["agents"] ~> ~isLoading["agents"]
    /\ isLoading["calls"] ~> ~isLoading["calls"]

C30_Witness ==
    /\ reqs = <<>>
    /\ issued = MaxRequests
    /\ ~isLoading["agents"] /\ ~isLoading["calls"]
    /\ error["calls"] = "Failed to initiate call"
    /\ hist["agents"].forcedOk

====
